---- MODULE Spec2Model ----
(***************************************************************************)
(* The two verification scripts of the repository as one state machine:    *)
(*   verification/verify_sheet.py : verify_sheet_music()                   *)
(*   verification/verify.py       : run()                                  *)
(* Each statement that talks to the browser, sleeps, prints or writes a    *)
(* file is one action; the environment (the target server and its DOM)     *)
(* decides the outcome of every navigation, wait, click, fill and capture. *)
(***************************************************************************)
EXTENDS Integers, Sequences, FiniteSets

VARIABLES
    prog,        \* which script runs: "verify_sheet" or "verify"
    pc,          \* position of the script
    launched,    \* p.chromium.launch() has returned a browser
    hasPage,     \* browser.new_page() has returned a page
    i,           \* loop variable of `for i in range(10)`
    connected,   \* a page.goto returned without raising
    pageLoaded,  \* environment: the page shows the application's DOM
    refused,     \* number of page.goto calls that raised with connection refused
    ops,         \* every call made so far, in program order
    log,         \* every line printed so far: <<message>> or <<message, index>>
    timedOut,    \* the waits that have timed out so far
    elemCount,   \* result of element.count(), -1 before it is evaluated
    files,       \* screenshot files written so far
    closeCount,  \* number of times browser.close() has been executed
    exc,         \* the exception propagating out of the function, "none" if none
    stopped,     \* the `with sync_playwright()` block has been left
    status       \* "running", then "ok" (normal return) or "failure" (uncaught exception)

vars == <<prog, pc, launched, hasPage, i, connected, pageLoaded, refused, ops, log,
          timedOut, elemCount, files, closeCount, exc, stopped, status>>

\* range(10) of the retry loop
ConnectRetries == 10

\* largest number of elements the container locator is taken to match
MaxMatches == 2

FullPng == "verification/sheet_music_full.png"
DetailPng == "verification/sheet_music_detail.png"
ScreenshotPng == "verification/screenshot.png"

\* a printed line without a loop index
LogLine(msg) == Append(log, <<msg>>)

\* an exception leaves the function body: nothing after the raising statement runs
Raise(name) ==
    /\ exc' = name
    /\ pc' = "unwind"

Init ==
    /\ prog \in {"verify_sheet", "verify"}
    /\ pc = "launch"
    /\ launched = FALSE
    /\ hasPage = FALSE
    /\ i = 0
    /\ connected = FALSE
    /\ pageLoaded = FALSE
    /\ refused = 0
    /\ ops = <<>>
    /\ log = <<>>
    /\ timedOut = {}
    /\ elemCount = -1
    /\ files = {}
    /\ closeCount = 0
    /\ exc = "none"
    /\ stopped = FALSE
    /\ status = "running"

-----------------------------------------------------------------------------
(* verify_sheet_music() *)

Launch ==
    /\ prog = "verify_sheet" /\ pc = "launch"
    /\ launched' = TRUE
    /\ ops' = Append(ops, "launch")
    /\ pc' = "new_page"
    /\ UNCHANGED <<prog, hasPage, i, connected, pageLoaded, refused, log, timedOut,
                   elemCount, files, closeCount, exc, stopped, status>>

NewPage ==
    /\ prog = "verify_sheet" /\ pc = "new_page"
    /\ hasPage' = TRUE
    /\ ops' = Append(ops, "new_page")
    /\ log' = LogLine("Connecting to localhost:3000")
    /\ i' = 0
    /\ pc' = "goto"
    /\ UNCHANGED <<prog, launched, connected, pageLoaded, refused, timedOut,
                   elemCount, files, closeCount, exc, stopped, status>>

\* GotoOk without the break: the loop goes on to its next iteration
GotoOk_NoBreak ==
    /\ prog = "verify_sheet" /\ pc = "goto" /\ i < ConnectRetries
    /\ ops' = Append(ops, "goto")
    /\ connected' = TRUE
    /\ pageLoaded' = TRUE
    /\ i' = i + 1
    /\ pc' = IF i + 1 < ConnectRetries THEN "goto" ELSE "wait_title"
    /\ UNCHANGED <<prog, launched, hasPage, refused, log, timedOut,
                   elemCount, files, closeCount, exc, stopped, status>>

\* page.goto returns: break out of the loop
GotoOk ==
    /\ prog = "verify_sheet" /\ pc = "goto" /\ i < ConnectRetries
    /\ ops' = Append(ops, "goto")
    /\ connected' = TRUE
    /\ pageLoaded' = TRUE
    /\ pc' = "wait_title"
    /\ UNCHANGED <<prog, launched, hasPage, i, refused, log, timedOut,
                   elemCount, files, closeCount, exc, stopped, status>>

\* GotoFail with a handler that prints nothing
GotoFail_NoLog ==
    /\ prog = "verify_sheet" /\ pc = "goto" /\ i < ConnectRetries
    /\ ops' = Append(ops, "goto")
    /\ \E kind \in {"refused", "timeout"} :
          /\ refused' = IF kind = "refused" THEN refused + 1 ELSE refused
          /\ pageLoaded' \in (IF kind = "refused" THEN {FALSE} ELSE BOOLEAN)
    /\ pc' = "sleep"
    /\ UNCHANGED <<prog, launched, hasPage, i, connected, log, timedOut,
                   elemCount, files, closeCount, exc, stopped, status>>

\* page.goto raises: the handler prints the attempt index, then goes on to sleep.
\* A refused connection leaves no application DOM; a navigation timeout may
\* leave the page rendered or not.
GotoFail ==
    /\ prog = "verify_sheet" /\ pc = "goto" /\ i < ConnectRetries
    /\ ops' = Append(ops, "goto")
    /\ \E kind \in {"refused", "timeout"} :
          /\ refused' = IF kind = "refused" THEN refused + 1 ELSE refused
          /\ pageLoaded' \in (IF kind = "refused" THEN {FALSE} ELSE BOOLEAN)
    /\ log' = Append(log, <<"Connection attempt failed", i>>)
    /\ pc' = "sleep"
    /\ UNCHANGED <<prog, launched, hasPage, i, connected, timedOut,
                   elemCount, files, closeCount, exc, stopped, status>>

\* RetrySleep in a loop that never advances its counter
RetrySleep_NoAdvance ==
    /\ prog = "verify_sheet" /\ pc = "sleep"
    /\ ops' = Append(ops, "sleep")
    /\ pc' = "goto"
    /\ UNCHANGED <<prog, launched, hasPage, i, connected, pageLoaded, refused, log,
                   timedOut, elemCount, files, closeCount, exc, stopped, status>>

\* RetrySleep that does not sleep after the last attempt
RetrySleep_NotAfterLast ==
    /\ prog = "verify_sheet" /\ pc = "sleep"
    /\ ops' = IF i + 1 < ConnectRetries THEN Append(ops, "sleep") ELSE ops
    /\ i' = i + 1
    /\ pc' = IF i + 1 < ConnectRetries THEN "goto" ELSE "wait_title"
    /\ UNCHANGED <<prog, launched, hasPage, connected, pageLoaded, refused, log,
                   timedOut, elemCount, files, closeCount, exc, stopped, status>>

\* time.sleep(2) of the handler, then the next iteration, or the loop's end
RetrySleep ==
    /\ prog = "verify_sheet" /\ pc = "sleep"
    /\ ops' = Append(ops, "sleep")
    /\ i' = i + 1
    /\ pc' = IF i + 1 < ConnectRetries THEN "goto" ELSE "wait_title"
    /\ UNCHANGED <<prog, launched, hasPage, connected, pageLoaded, refused, log,
                   timedOut, elemCount, files, closeCount, exc, stopped, status>>

\* print("Waiting for title..."); page.wait_for_selector(title, visible) returns
WaitTitleOk ==
    /\ prog = "verify_sheet" /\ pc = "wait_title"
    /\ pageLoaded
    /\ ops' = Append(ops, "wait_title")
    /\ log' = Append(LogLine("Waiting for title..."), <<"App loaded.">>)
    /\ pc' = "click_youtube"
    /\ UNCHANGED <<prog, launched, hasPage, i, connected, pageLoaded, refused,
                   timedOut, elemCount, files, closeCount, exc, stopped, status>>

\* WaitTitleTimeout wrapped in a try/except like the later waits
WaitTitleTimeout_Swallowed ==
    /\ prog = "verify_sheet" /\ pc = "wait_title"
    /\ ops' = Append(ops, "wait_title")
    /\ log' = LogLine("Waiting for title...")
    /\ timedOut' = timedOut \cup {"title"}
    /\ pc' = "click_youtube"
    /\ UNCHANGED <<prog, launched, hasPage, i, connected, pageLoaded, refused,
                   elemCount, files, closeCount, exc, stopped, status>>

\* the title wait times out: the call is not inside a try, the exception escapes
WaitTitleTimeout ==
    /\ prog = "verify_sheet" /\ pc = "wait_title"
    /\ ops' = Append(ops, "wait_title")
    /\ log' = LogLine("Waiting for title...")
    /\ timedOut' = timedOut \cup {"title"}
    /\ Raise("TimeoutError")
    /\ UNCHANGED <<prog, launched, hasPage, i, connected, pageLoaded, refused,
                   elemCount, files, closeCount, stopped, status>>

ClickYouTubeOk ==
    /\ prog = "verify_sheet" /\ pc = "click_youtube"
    /\ ops' = Append(ops, "click_youtube")
    /\ pc' = "fill_url"
    /\ UNCHANGED <<prog, launched, hasPage, i, connected, pageLoaded, refused, log,
                   timedOut, elemCount, files, closeCount, exc, stopped, status>>

ClickYouTubeFail ==
    /\ prog = "verify_sheet" /\ pc = "click_youtube"
    /\ ops' = Append(ops, "click_youtube")
    /\ Raise("TimeoutError")
    /\ UNCHANGED <<prog, launched, hasPage, i, connected, pageLoaded, refused, log,
                   timedOut, elemCount, files, closeCount, stopped, status>>

FillUrlOk ==
    /\ prog = "verify_sheet" /\ pc = "fill_url"
    /\ ops' = Append(ops, "fill_url")
    /\ pc' = "click_load"
    /\ UNCHANGED <<prog, launched, hasPage, i, connected, pageLoaded, refused, log,
                   timedOut, elemCount, files, closeCount, exc, stopped, status>>

FillUrlFail ==
    /\ prog = "verify_sheet" /\ pc = "fill_url"
    /\ ops' = Append(ops, "fill_url")
    /\ Raise("TimeoutError")
    /\ UNCHANGED <<prog, launched, hasPage, i, connected, pageLoaded, refused, log,
                   timedOut, elemCount, files, closeCount, stopped, status>>

ClickLoadOk ==
    /\ prog = "verify_sheet" /\ pc = "click_load"
    /\ ops' = Append(ops, "click_load")
    /\ log' = LogLine("Video loading initiated...")
    /\ pc' = "wait_toast"
    /\ UNCHANGED <<prog, launched, hasPage, i, connected, pageLoaded, refused,
                   timedOut, elemCount, files, closeCount, exc, stopped, status>>

ClickLoadFail ==
    /\ prog = "verify_sheet" /\ pc = "click_load"
    /\ ops' = Append(ops, "click_load")
    /\ Raise("TimeoutError")
    /\ UNCHANGED <<prog, launched, hasPage, i, connected, pageLoaded, refused, log,
                   timedOut, elemCount, files, closeCount, stopped, status>>

\* try: wait_for_selector("text=Video Loaded", 15 s)
WaitToastOk ==
    /\ prog = "verify_sheet" /\ pc = "wait_toast"
    /\ ops' = Append(ops, "wait_toast")
    /\ log' = LogLine("Video loaded toast confirmed.")
    /\ pc' = "wait_svg"
    /\ UNCHANGED <<prog, launched, hasPage, i, connected, pageLoaded, refused,
                   timedOut, elemCount, files, closeCount, exc, stopped, status>>

\* WaitToastTimeout without the try/except: the timeout escapes
WaitToastTimeout_Escapes ==
    /\ prog = "verify_sheet" /\ pc = "wait_toast"
    /\ ops' = Append(ops, "wait_toast")
    /\ timedOut' = timedOut \cup {"toast"}
    /\ Raise("TimeoutError")
    /\ UNCHANGED <<prog, launched, hasPage, i, connected, pageLoaded, refused, log,
                   elemCount, files, closeCount, stopped, status>>

\* except: the timeout is swallowed and the script goes on
WaitToastTimeout ==
    /\ prog = "verify_sheet" /\ pc = "wait_toast"
    /\ ops' = Append(ops, "wait_toast")
    /\ timedOut' = timedOut \cup {"toast"}
    /\ log' = LogLine("Toast not found, maybe missed it. Checking for SVG...")
    /\ pc' = "wait_svg"
    /\ UNCHANGED <<prog, launched, hasPage, i, connected, pageLoaded, refused,
                   elemCount, files, closeCount, exc, stopped, status>>

\* try: wait_for_selector("svg", 15 s)
WaitSvgOk ==
    /\ prog = "verify_sheet" /\ pc = "wait_svg"
    /\ ops' = Append(ops, "wait_svg")
    /\ log' = LogLine("SVG element found.")
    /\ pc' = "screenshot_full"
    /\ UNCHANGED <<prog, launched, hasPage, i, connected, pageLoaded, refused,
                   timedOut, elemCount, files, closeCount, exc, stopped, status>>

\* WaitSvgTimeout that tries the wait again instead of going on
WaitSvgTimeout_Retry ==
    /\ prog = "verify_sheet" /\ pc = "wait_svg"
    /\ ops' = Append(ops, "wait_svg")
    /\ timedOut' = timedOut \cup {"svg"}
    /\ log' = LogLine("No SVG found yet.")
    /\ pc' = "wait_svg"
    /\ UNCHANGED <<prog, launched, hasPage, i, connected, pageLoaded, refused,
                   elemCount, files, closeCount, exc, stopped, status>>

\* except: the timeout is swallowed and the script goes on
WaitSvgTimeout ==
    /\ prog = "verify_sheet" /\ pc = "wait_svg"
    /\ ops' = Append(ops, "wait_svg")
    /\ timedOut' = timedOut \cup {"svg"}
    /\ log' = LogLine("No SVG found yet.")
    /\ pc' = "screenshot_full"
    /\ UNCHANGED <<prog, launched, hasPage, i, connected, pageLoaded, refused,
                   elemCount, files, closeCount, exc, stopped, status>>

\* page.screenshot(path=full) returns: the file is written
ScreenshotFullOk ==
    /\ prog = "verify_sheet" /\ pc = "screenshot_full"
    /\ ops' = Append(ops, "screenshot_full")
    /\ files' = files \cup {FullPng}
    /\ log' = LogLine("Full page screenshot taken.")
    /\ pc' = "count"
    /\ UNCHANGED <<prog, launched, hasPage, i, connected, pageLoaded, refused,
                   timedOut, elemCount, closeCount, exc, stopped, status>>

\* ScreenshotFullFail wrapped in a try/except: the script goes on without the file
ScreenshotFullFail_Swallowed ==
    /\ prog = "verify_sheet" /\ pc = "screenshot_full"
    /\ ops' = Append(ops, "screenshot_full")
    /\ pc' = "count"
    /\ UNCHANGED <<prog, launched, hasPage, i, connected, pageLoaded, refused, log,
                   timedOut, elemCount, files, closeCount, exc, stopped, status>>

\* page.screenshot(path=full) raises (the file cannot be written, the page crashed)
ScreenshotFullFail ==
    /\ prog = "verify_sheet" /\ pc = "screenshot_full"
    /\ ops' = Append(ops, "screenshot_full")
    /\ Raise("Error")
    /\ UNCHANGED <<prog, launched, hasPage, i, connected, pageLoaded, refused, log,
                   timedOut, elemCount, files, closeCount, stopped, status>>

\* LocatorCount with the test written as count() > 1
LocatorCount_OffByOne ==
    /\ prog = "verify_sheet" /\ pc = "count"
    /\ ops' = Append(ops, "count")
    /\ \E n \in 0..MaxMatches :
          /\ elemCount' = n
          /\ pc' = IF n > 1 THEN "screenshot_detail" ELSE "close"
    /\ UNCHANGED <<prog, launched, hasPage, i, connected, pageLoaded, refused, log,
                   timedOut, files, closeCount, exc, stopped, status>>

\* element = page.locator(container); if element.count() > 0
LocatorCount ==
    /\ prog = "verify_sheet" /\ pc = "count"
    /\ ops' = Append(ops, "count")
    /\ \E n \in 0..MaxMatches :
          /\ elemCount' = n
          /\ pc' = IF n > 0 THEN "screenshot_detail" ELSE "close"
    /\ UNCHANGED <<prog, launched, hasPage, i, connected, pageLoaded, refused, log,
                   timedOut, files, closeCount, exc, stopped, status>>

\* element.screenshot(path=detail) returns; a locator is strict, so it must
\* resolve to a single element
ScreenshotDetailOk ==
    /\ prog = "verify_sheet" /\ pc = "screenshot_detail"
    /\ elemCount = 1
    /\ ops' = Append(ops, "screenshot_detail")
    /\ files' = files \cup {DetailPng}
    /\ log' = LogLine("Detail screenshot taken.")
    /\ pc' = "close"
    /\ UNCHANGED <<prog, launched, hasPage, i, connected, pageLoaded, refused,
                   timedOut, elemCount, closeCount, exc, stopped, status>>

\* element.screenshot(path=detail) raises
ScreenshotDetailFail ==
    /\ prog = "verify_sheet" /\ pc = "screenshot_detail"
    /\ ops' = Append(ops, "screenshot_detail")
    /\ Raise("Error")
    /\ UNCHANGED <<prog, launched, hasPage, i, connected, pageLoaded, refused, log,
                   timedOut, elemCount, files, closeCount, stopped, status>>

\* Close placed before the element-scoped screenshot
Close_NotLast ==
    /\ prog = "verify_sheet" /\ pc = "close"
    /\ ops' = Append(ops, "close")
    /\ closeCount' = closeCount + 1
    /\ pc' = "screenshot_detail"
    /\ UNCHANGED <<prog, launched, hasPage, i, connected, pageLoaded, refused, log,
                   timedOut, elemCount, files, exc, stopped, status>>

\* browser.close(), the last statement of the with block
Close ==
    /\ prog = "verify_sheet" /\ pc = "close"
    /\ ops' = Append(ops, "close")
    /\ closeCount' = closeCount + 1
    /\ pc' = "exit_with"
    /\ UNCHANGED <<prog, launched, hasPage, i, connected, pageLoaded, refused, log,
                   timedOut, elemCount, files, exc, stopped, status>>

\* leaving `with sync_playwright() as p`, by falling off its end or by an
\* exception; an exception nobody catches ends the process with a traceback
ExitWith ==
    /\ prog = "verify_sheet" /\ pc \in {"exit_with", "unwind"}
    /\ stopped' = TRUE
    /\ status' = IF exc = "none" THEN "ok" ELSE "failure"
    /\ pc' = "end"
    /\ UNCHANGED <<prog, launched, hasPage, i, connected, pageLoaded, refused, ops,
                   log, timedOut, elemCount, files, closeCount, exc>>

-----------------------------------------------------------------------------
(* run() of verify.py *)

RunLaunch ==
    /\ prog = "verify" /\ pc = "launch"
    /\ launched' = TRUE
    /\ ops' = Append(ops, "launch")
    /\ pc' = "new_page"
    /\ UNCHANGED <<prog, hasPage, i, connected, pageLoaded, refused, log, timedOut,
                   elemCount, files, closeCount, exc, stopped, status>>

RunNewPage ==
    /\ prog = "verify" /\ pc = "new_page"
    /\ hasPage' = TRUE
    /\ ops' = Append(ops, "new_page")
    /\ pc' = "goto"
    /\ UNCHANGED <<prog, launched, i, connected, pageLoaded, refused, log, timedOut,
                   elemCount, files, closeCount, exc, stopped, status>>

\* page.goto('http://localhost:4173') returns
RunGotoOk ==
    /\ prog = "verify" /\ pc = "goto"
    /\ ops' = Append(ops, "goto")
    /\ connected' = TRUE
    /\ pageLoaded' = TRUE
    /\ pc' = "sleep"
    /\ UNCHANGED <<prog, launched, hasPage, i, refused, log, timedOut,
                   elemCount, files, closeCount, exc, stopped, status>>

\* RunGotoFail wrapped in a try/except: the script goes on
RunGotoFail_Swallowed ==
    /\ prog = "verify" /\ pc = "goto"
    /\ ops' = Append(ops, "goto")
    /\ \E kind \in {"refused", "timeout"} :
          /\ refused' = IF kind = "refused" THEN refused + 1 ELSE refused
          /\ pageLoaded' \in (IF kind = "refused" THEN {FALSE} ELSE BOOLEAN)
    /\ pc' = "sleep"
    /\ UNCHANGED <<prog, launched, hasPage, i, connected, log, timedOut,
                   elemCount, files, closeCount, exc, stopped, status>>

\* page.goto raises: nothing catches it
RunGotoFail ==
    /\ prog = "verify" /\ pc = "goto"
    /\ ops' = Append(ops, "goto")
    /\ \E kind \in {"refused", "timeout"} :
          /\ refused' = IF kind = "refused" THEN refused + 1 ELSE refused
          /\ pageLoaded' \in (IF kind = "refused" THEN {FALSE} ELSE BOOLEAN)
    /\ Raise("Error")
    /\ UNCHANGED <<prog, launched, hasPage, i, connected, log, timedOut,
                   elemCount, files, closeCount, stopped, status>>

\* time.sleep(2)
RunSleep ==
    /\ prog = "verify" /\ pc = "sleep"
    /\ ops' = Append(ops, "sleep")
    /\ pc' = "screenshot"
    /\ UNCHANGED <<prog, launched, hasPage, i, connected, pageLoaded, refused, log,
                   timedOut, elemCount, files, closeCount, exc, stopped, status>>

RunScreenshotOk ==
    /\ prog = "verify" /\ pc = "screenshot"
    /\ ops' = Append(ops, "screenshot")
    /\ files' = files \cup {ScreenshotPng}
    /\ pc' = "close"
    /\ UNCHANGED <<prog, launched, hasPage, i, connected, pageLoaded, refused, log,
                   timedOut, elemCount, closeCount, exc, stopped, status>>

RunScreenshotFail ==
    /\ prog = "verify" /\ pc = "screenshot"
    /\ ops' = Append(ops, "screenshot")
    /\ Raise("Error")
    /\ UNCHANGED <<prog, launched, hasPage, i, connected, pageLoaded, refused, log,
                   timedOut, elemCount, files, closeCount, stopped, status>>

RunClose ==
    /\ prog = "verify" /\ pc = "close"
    /\ ops' = Append(ops, "close")
    /\ closeCount' = closeCount + 1
    /\ pc' = "exit_with"
    /\ UNCHANGED <<prog, launched, hasPage, i, connected, pageLoaded, refused, log,
                   timedOut, elemCount, files, exc, stopped, status>>

RunExitWith ==
    /\ prog = "verify" /\ pc \in {"exit_with", "unwind"}
    /\ stopped' = TRUE
    /\ status' = IF exc = "none" THEN "ok" ELSE "failure"
    /\ pc' = "end"
    /\ UNCHANGED <<prog, launched, hasPage, i, connected, pageLoaded, refused, ops,
                   log, timedOut, elemCount, files, closeCount, exc>>

-----------------------------------------------------------------------------

Next ==
    \/ Launch \/ NewPage \/ GotoOk \/ GotoFail \/ RetrySleep
    \/ WaitTitleOk \/ WaitTitleTimeout
    \/ ClickYouTubeOk \/ ClickYouTubeFail
    \/ FillUrlOk \/ FillUrlFail
    \/ ClickLoadOk \/ ClickLoadFail
    \/ WaitToastOk \/ WaitToastTimeout
    \/ WaitSvgOk \/ WaitSvgTimeout
    \/ ScreenshotFullOk \/ ScreenshotFullFail
    \/ LocatorCount
    \/ ScreenshotDetailOk \/ ScreenshotDetailFail
    \/ Close \/ ExitWith
    \/ RunLaunch \/ RunNewPage \/ RunGotoOk \/ RunGotoFail \/ RunSleep
    \/ RunScreenshotOk \/ RunScreenshotFail \/ RunClose \/ RunExitWith

Spec == Init /\ [][Next]_vars

TypeOK ==
    /\ prog \in {"verify_sheet", "verify"}
    /\ launched \in BOOLEAN /\ hasPage \in BOOLEAN
    /\ i \in 0..ConnectRetries
    /\ connected \in BOOLEAN /\ pageLoaded \in BOOLEAN
    /\ refused \in 0..ConnectRetries
    /\ timedOut \subseteq {"title", "toast", "svg"}
    /\ elemCount \in -1..MaxMatches
    /\ files \subseteq {FullPng, DetailPng, ScreenshotPng}
    /\ closeCount \in 0..1
    /\ exc \in {"none", "TimeoutError", "Error"}
    /\ stopped \in BOOLEAN
    /\ status \in {"running", "ok", "failure"}

-----------------------------------------------------------------------------
(* Observations on a run *)

NumOps(seq, name) == Cardinality({k \in 1..Len(seq) : seq[k] = name})

GotoCount == NumOps(ops, "goto")
DelayCount == NumOps(ops, "sleep")

Issued(name) == \E k \in 1..Len(ops) : ops[k] = name

InteractionSteps ==
    {"wait_title", "click_youtube", "fill_url", "click_load", "wait_toast", "wait_svg"}

\* the retry loop of verify_sheet_music ran out of iterations: every goto raised
Exhausted == prog = "verify_sheet" /\ i = ConnectRetries

AttemptLines == {k \in 1..Len(log) : log[k][1] = "Connection attempt failed"}

\* between two navigation attempts there is exactly one time.sleep(2)
Separated ==
    \A k \in 1..Len(ops) :
        (ops[k] = "goto" /\ \E m \in (k + 1)..Len(ops) : ops[m] = "goto")
            => (ops[k + 1] = "sleep" /\ ops[k + 2] = "goto")

Ended == pc = "end"

-----------------------------------------------------------------------------
(* Teardown *)

\* C1: once the browser has been launched, browser.close() has been executed
\* exactly once when the run has ended, whatever raised on the way (a goto, a
\* wait, a click, the fill, a screenshot) and on the success path.
C1_ClosedExactlyOnce == (Ended /\ launched) => closeCount = 1

-----------------------------------------------------------------------------
(* Connection retries *)

\* C2: when every page.goto of the retry loop has failed, exactly
\* ConnectRetries attempts were made, consecutive attempts are separated by one
\* retry delay, and a TargetUnreachable condition is raised.
C2_UnreachableRaised ==
    Exhausted => /\ GotoCount = ConnectRetries
                 /\ Separated
                 /\ exc = "TargetUnreachable"

\* C3: when the connection attempts are exhausted no step of the interaction
\* sequence is started; the run fails and goes to teardown.
C3_NoInteractionAfterExhaustion ==
    Exhausted => \A k \in 1..Len(ops) : ops[k] \notin InteractionSteps

\* C10: after a page.goto of the retry loop has succeeded, no further
\* navigation attempt and no further retry delay occurs.
C10_NoAttemptAfterSuccess ==
    [][(prog = "verify_sheet" /\ connected)
          => (GotoCount' = GotoCount /\ DelayCount' = DelayCount)]_vars

\* a run that connected at its third attempt, after one refusal and one
\* navigation timeout, and has ended
C10_Witness ==
    /\ prog = "verify_sheet" /\ Ended /\ connected
    /\ GotoCount = 3 /\ DelayCount = 2 /\ refused = 1

-----------------------------------------------------------------------------
(* Waits *)

LoadBearingWaits == {"title", "svg"}

WaitOf(op) ==
    CASE op = "wait_title" -> "title"
      [] op = "wait_toast" -> "toast"
      [] op = "wait_svg" -> "svg"
      [] OTHER -> "none"

\* C4: after a wait has timed out, the next step of the interaction sequence
\* is executed if and only if the wait is not load-bearing: no interaction step
\* follows a timed-out load-bearing wait, and the step after a timed-out
\* best-effort wait is the next thing the script does.
C4_TimeoutContinuesIffBestEffort ==
    \A k \in 1..Len(ops) :
        WaitOf(ops[k]) \in timedOut =>
            IF WaitOf(ops[k]) \in LoadBearingWaits
            THEN \A m \in (k + 1)..Len(ops) : ops[m] \notin InteractionSteps
            ELSE IF k < Len(ops)
                 THEN ops[k + 1] \in InteractionSteps
                 ELSE pc \in InteractionSteps

\* a run that has ended, in which the toast wait timed out and the SVG wait was
\* made after it
C4_Witness ==
    /\ Ended /\ "toast" \in timedOut
    /\ \E k \in 1..(Len(ops) - 1) : ops[k] = "wait_toast" /\ ops[k + 1] = "wait_svg"

\* C5: when a load-bearing wait (the title wait, the SVG wait) has timed out,
\* the run still writes the full-page screenshot and ends with failure status.
C5_DiagnosticCaptureThenFailure ==
    (Ended /\ prog = "verify_sheet" /\ timedOut \cap LoadBearingWaits # {})
        => (FullPng \in files /\ status = "failure")

-----------------------------------------------------------------------------
(* Exit status and scenarios *)

\* C6: the run ends with failure status if and only if the connection attempts
\* were exhausted or a load-bearing wait timed out; otherwise it ends normally.
C6_ExitStatus ==
    (Ended /\ prog = "verify_sheet")
        => /\ status \in {"ok", "failure"}
           /\ status = "failure" <=> (Exhausted \/ timedOut \cap LoadBearingWaits # {})

\* C7: when every connection attempt is refused, the run logs ConnectRetries
\* attempts, raises TargetUnreachable, ends with failure status and writes no
\* screenshot.
C7_TargetNeverStarts ==
    (prog = "verify_sheet" /\ refused = ConnectRetries)
        => /\ Cardinality(AttemptLines) = ConnectRetries
           /\ files = {}
           /\ pc \notin {"goto", "sleep"} => exc = "TargetUnreachable"
           /\ Ended => status = "failure"

\* the first navigation succeeded, the title wait, the clicks and the fill
\* succeeded, the toast wait timed out and the SVG wait succeeded
ToastMissed ==
    /\ prog = "verify_sheet" /\ connected /\ GotoCount = 1
    /\ Issued("wait_svg") /\ pc # "wait_svg"
    /\ timedOut = {"toast"}

C9_SkipLoggedNotFatal ==
    (prog = "verify_sheet" /\ elemCount = 0)
        => /\ ~Issued("screenshot_detail") /\ DetailPng \notin files
           /\ exc = "none"
           /\ log[Len(log)][1] # "Full page screenshot taken."
           /\ Ended => (closeCount = 1 /\ status = "ok")

-----------------------------------------------------------------------------
(* Order of the steps *)

\* the statements of verify_sheet_music after the retry loop, in source order
ScriptOrder ==
    <<"wait_title", "click_youtube", "fill_url", "click_load", "wait_toast",
      "wait_svg", "screenshot_full", "count", "screenshot_detail">>

Scripted(op) == \E r \in 1..Len(ScriptOrder) : ScriptOrder[r] = op

Rank(op) == CHOOSE r \in 1..Len(ScriptOrder) : ScriptOrder[r] = op

\* C11: the steps run one after the other in their scripted order, each at
\* most once and each directly after the step scripted before it; nothing but
\* the connection navigation (with its retry delay) is ever repeated.
C11_SerialOrderOnce ==
    prog = "verify_sheet" =>
        /\ \A k \in 1..Len(ops) : \A m \in (k + 1)..Len(ops) :
              /\ (Scripted(ops[k]) /\ Scripted(ops[m])) => Rank(ops[k]) < Rank(ops[m])
              /\ ops[k] = ops[m] => ops[k] \in {"goto", "sleep"}
        /\ \A k \in 1..Len(ops) :
              (Scripted(ops[k]) /\ Rank(ops[k]) > 1)
                  => (k > 1 /\ ops[k - 1] = ScriptOrder[Rank(ops[k]) - 1])

\* a run that needed three navigation attempts and then went through every
\* scripted step
C11_Witness ==
    /\ prog = "verify_sheet" /\ Ended /\ GotoCount = 3
    /\ \A r \in 1..Len(ScriptOrder) : Issued(ScriptOrder[r])

\* C12: when one of the two clicks or the fill fails, the later interaction
\* steps are not executed and the full-page screenshot is written before the
\* run ends.
C12_FailedActionCapturesDiagnostic ==
    (Ended /\ prog = "verify_sheet" /\ exc # "none"
        /\ ops[Len(ops)] \in {"click_youtube", "fill_url", "click_load"})
        => FullPng \in files

-----------------------------------------------------------------------------
(* Attempt log and retry delays *)

\* the page.goto calls of the retry loop that raised
FailedAttempts == GotoCount - (IF connected THEN 1 ELSE 0)

FairSpec == Spec /\ WF_vars(Next)

\* C14: the retry loop makes at most ConnectRetries attempts and every run
\* eventually ends with a definite outcome, whatever the attempts and waits
\* resolve to.
C14_Terminates ==
    /\ [](GotoCount <= ConnectRetries)
    /\ <>(Ended /\ stopped /\ status \in {"ok", "failure"})

\* a run that has ended after all ConnectRetries attempts failed
C14_Witness ==
    /\ Ended /\ Exhausted /\ GotoCount = ConnectRetries /\ status = "failure"

\* C15: the retry delay follows every failed navigation attempt, the last one
\* included, and never a successful one: there are as many delays as failed
\* attempts, ConnectRetries of them when every attempt fails.
C15_DelayAfterEveryFailure ==
    prog = "verify_sheet" =>
        /\ pc # "sleep" => DelayCount = FailedAttempts
        /\ pc = "sleep" => DelayCount = FailedAttempts - 1
        /\ \A k \in 1..Len(ops) : ops[k] = "sleep" => (k > 1 /\ ops[k - 1] = "goto")
        /\ connected =>
              \A k \in 1..Len(ops) :
                  (ops[k] = "goto" /\ \A m \in (k + 1)..Len(ops) : ops[m] # "goto")
                      => \A m \in (k + 1)..Len(ops) : ops[m] # "sleep"
        /\ Exhausted => DelayCount = ConnectRetries

\* every attempt has failed and ConnectRetries delays were made
C15_Witness ==
    /\ Exhausted /\ GotoCount = ConnectRetries /\ DelayCount = ConnectRetries

-----------------------------------------------------------------------------
(* What each operation depends on *)

ActionOps ==
    {"click_youtube", "fill_url", "click_load", "screenshot_full", "screenshot_detail"}

\* C16: in verify_sheet_music a click, the fill or a screenshot is executed
\* only after the title wait was satisfied; when the title wait fails the run
\* ends with no interaction performed and no file written.
C16_NothingBeforeTitle ==
    prog = "verify_sheet" =>
        /\ \A k \in 1..Len(ops) :
              ops[k] \in ActionOps
                  => /\ \E m \in 1..(k - 1) : ops[m] = "wait_title"
                     /\ "title" \notin timedOut
        /\ "title" \in timedOut
              => /\ files = {}
                 /\ ops[Len(ops)] = "wait_title"
                 /\ pc \in {"unwind", "end"}

\* a run that connected, whose title wait timed out, and that has ended
C16_Witness ==
    /\ prog = "verify_sheet" /\ Ended /\ connected /\ "title" \in timedOut

\* C17: the element-scoped screenshot is written only after the full-page
\* screenshot of the same run, and only when the container locator matched an
\* element: sheet_music_detail.png is never there without sheet_music_full.png.
C17_DetailOnlyAfterFull ==
    DetailPng \in files =>
        /\ FullPng \in files
        /\ elemCount >= 1
        /\ \E k \in 1..Len(ops) : \E m \in (k + 1)..Len(ops) :
              ops[k] = "screenshot_full" /\ ops[m] = "screenshot_detail"

\* both screenshots have been written
C17_Witness ==
    /\ prog = "verify_sheet" /\ files = {FullPng, DetailPng} /\ elemCount = 1

\* C18: browser.close() is the last browser operation of a run, in both
\* scripts: nothing is issued after it.
C18_CloseIsLast ==
    /\ \A k \in 1..Len(ops) : ops[k] = "close" => k = Len(ops)
    /\ closeCount > 0 => pc \in {"exit_with", "end"}

\* a run of verify_sheet_music that closed the browser and has ended
C18_Witness ==
    /\ prog = "verify_sheet" /\ Ended /\ closeCount = 1
    /\ ops[Len(ops)] = "close"

\* C19: run() makes one navigation attempt and never retries; its screenshot is
\* written only if that navigation succeeded, and a failed navigation ends the
\* run with no file written.
C19_RunSingleAttempt ==
    prog = "verify" =>
        /\ GotoCount <= 1
        /\ (pc \notin {"launch", "new_page", "goto"}) => GotoCount = 1
        /\ ScreenshotPng \in files => connected
        /\ Issued("screenshot") => connected
        /\ (Ended /\ ~connected) => (files = {} /\ ops[Len(ops)] = "goto")

\* run() has ended after its navigation failed
C19_Witness ==
    /\ prog = "verify" /\ Ended /\ ~connected /\ GotoCount = 1 /\ status = "failure"

====
